---- MODULE Spec2Model ----
(***************************************************************************)
(* A model of louds::ThingPool<T, MAX_THINGS> (src/src/louds.cppm): a      *)
(* fixed-capacity generational pool with an intrusive parent / sibling-    *)
(* ring hierarchy and a free-list.                                         *)
(***************************************************************************)
EXTENDS Integers, Sequences, FiniteSets, TLC

\* ThingPool<int, 4>: slot 0 is the nil slot, slots 1..3 are allocatable.
MAX_THINGS == 4

\* ThingIdx and Generation are uint32_t.  TLC integers are 32 bits wide, so
\* a uint32_t value is carried as its two's-complement bit pattern: u for
\* u < 2^31 and u - 2^32 above.  U32Max is 4294967295.
U32Max == 0 - 1

\* u + 1 in uint32_t arithmetic (4294967295 + 1 = 0).
u32_inc(u) == IF u = 2147483647 THEN (0 - 2147483647) - 1 ELSE u + 1

\* a < b as uint32_t values.
u32_less(a, b) == IF (a >= 0) <=> (b >= 0) THEN a < b ELSE a >= 0

\* Number of spawn calls the model follows per slot.
MaxSpawns == 2

\* Steps (calls and loop iterations) a destroy may take before the model
\* declares that it does not return.
Fuel == 12

\* Number of public calls the model follows from construction.
MaxSteps == 6

\* Number of public calls the model follows when it looks at the shape of
\* the hierarchy and of the free-list.
MaxTreeSteps == 5

\* Number of public calls the model follows when the deferred-destroy queue
\* takes part.
MaxQueueSteps == 5

\* Number of public calls the model follows when the deferred-destroy queue
\* and the snapshot file take part.
MaxWorldSteps == 4
MaxLoadSteps == 4

Idx == 0 .. (MAX_THINGS - 1)
Slots == 1 .. (MAX_THINGS - 1)

\* Payload values (T = int); T{} is 0.
Data == {0, 1}

NilRef == [index |-> 0, generation |-> 0]

\* Node{} : the value-initialised node.
BlankNode ==
  [generation |-> 0, is_active |-> FALSE, parent |-> 0, first_child |-> 0,
   next_sibling |-> 0, prev_sibling |-> 0, data |-> 0]

\* nodes, next_free, first_free: the pool's members.
\* base:   the generation every slot had when the run started.
\* halted: a destroy call did not return (unbounded recursion or loop).
\* steps:  public calls made so far.
\* issued: per slot, the generations of the handles spawn returned for it.
\* dead:   handles spawn returned that were later seen invalid.
\* pending: the deferred-destroy queue, oldest entry first.
\* file:   the snapshot file save_to_file writes and load_from_file reads.
\* saved:  the pool as it was at the last save_to_file that returned true.
VARIABLES nodes, next_free, first_free, base, halted, steps, issued, dead,
          pending, file, saved

vars == <<nodes, next_free, first_free, base, halted, steps, issued, dead,
          pending, file, saved>>

Ref(i, g) == [index |-> i, generation |-> g]

\* Handles spawn has returned so far.
IssuedHandles(iss) ==
  UNION {{Ref(i, iss[i][k]) : k \in 1 .. Len(iss[i])} : i \in Slots}

\* Handle arguments a caller can pass: nil, an index >= MAX_THINGS, a made-up
\* (i, 0) for every slot, and every handle spawn ever returned, live or
\* stale.
Handles ==
  {NilRef, Ref(MAX_THINGS, 0)} \cup {Ref(i, 0) : i \in Slots}
    \cup IssuedHandles(issued) \cup dead

----------------------------------------------------------------------------
\* ThingPool::is_valid
is_valid_in(ns, ref) ==
  IF ref.index > 0 /\ ref.index < MAX_THINGS
  THEN ns[ref.index].is_active /\ ns[ref.index].generation = ref.generation
  ELSE FALSE

is_valid(ref) == is_valid_in(nodes, ref)

\* ThingPool::get_node, as the index of the node it returns a reference to.
get_node(ns, ref) ==
  IF ref.index = 0 \/ ref.index >= MAX_THINGS
  THEN 0
  ELSE IF ns[ref.index].generation # ref.generation THEN 0 ELSE ref.index

\* detach with the node reset wholesale (node = {}) where the code clears
\* three links.
detach_resets_node(ns, ref) ==
  LET i == get_node(ns, ref) IN
  IF i = 0 \/ ns[i].parent = 0 THEN ns
  ELSE LET p == ns[i].parent
           n1 == IF ns[i].next_sibling = ref.index
                 THEN [ns EXCEPT ![p].first_child = 0]
                 ELSE [ns EXCEPT ![ns[i].prev_sibling].next_sibling =
                                    ns[i].next_sibling,
                                 ![ns[i].next_sibling].prev_sibling =
                                    ns[i].prev_sibling]
       IN [n1 EXCEPT ![i] = BlankNode]

\* ThingPool::detach on the node array; every statement reads the array as
\* the previous statement left it.
detach(ns, ref) ==
  LET i == get_node(ns, ref) IN
  IF i = 0 \/ ns[i].parent = 0 THEN ns
  ELSE
    LET p  == ns[i].parent
        n1 == IF ns[i].next_sibling = ref.index
              THEN [ns EXCEPT ![p].first_child = 0]
              ELSE
                LET a == [ns EXCEPT ![ns[i].prev_sibling].next_sibling =
                                       ns[i].next_sibling]
                    b == [a EXCEPT ![a[i].next_sibling].prev_sibling =
                                      a[i].prev_sibling]
                IN IF b[p].first_child = ref.index
                   THEN [b EXCEPT ![p].first_child = b[i].next_sibling]
                   ELSE b
    IN [n1 EXCEPT ![i].parent = 0, ![i].next_sibling = 0,
                  ![i].prev_sibling = 0]

\* attach_child with the roles of its two arguments exchanged: the node
\* named as parent is linked under the node named as child.
attach_child_swapped(ns, parent_ref, child_ref) ==
  LET pi == get_node(ns, child_ref)
      ci == get_node(ns, parent_ref)
  IN
  IF pi = 0 \/ ci = 0 THEN ns
  ELSE
    LET n1 == IF ns[ci].parent # 0 THEN detach(ns, parent_ref) ELSE ns
        n2 == [n1 EXCEPT ![ci].parent = child_ref.index]
    IN
    IF n2[pi].first_child = 0
    THEN
      LET a == [n2 EXCEPT ![pi].first_child = parent_ref.index]
          b == [a EXCEPT ![ci].next_sibling = parent_ref.index]
      IN [b EXCEPT ![ci].prev_sibling = parent_ref.index]
    ELSE
      LET first_child == n2[pi].first_child
          last_child  == n2[first_child].prev_sibling
          a == [n2 EXCEPT ![last_child].next_sibling = parent_ref.index]
          b == [a EXCEPT ![ci].prev_sibling = last_child]
          c == [b EXCEPT ![ci].next_sibling = first_child]
      IN [c EXCEPT ![first_child].prev_sibling = parent_ref.index]

\* ThingPool::attach_child on the node array.
attach_child(ns, parent_ref, child_ref) ==
  LET pi == get_node(ns, parent_ref)
      ci == get_node(ns, child_ref)
  IN
  IF pi = 0 \/ ci = 0 THEN ns
  ELSE
    LET n1 == IF ns[ci].parent # 0 THEN detach(ns, child_ref) ELSE ns
        n2 == [n1 EXCEPT ![ci].parent = parent_ref.index]
    IN
    IF n2[pi].first_child = 0
    THEN
      LET a == [n2 EXCEPT ![pi].first_child = child_ref.index]
          b == [a EXCEPT ![ci].next_sibling = child_ref.index]
      IN [b EXCEPT ![ci].prev_sibling = child_ref.index]
    ELSE
      LET first_child == n2[pi].first_child
          last_child  == n2[first_child].prev_sibling
          a == [n2 EXCEPT ![last_child].next_sibling = child_ref.index]
          b == [a EXCEPT ![ci].prev_sibling = last_child]
          c == [b EXCEPT ![ci].next_sibling = first_child]
      IN [c EXCEPT ![first_child].prev_sibling = child_ref.index]

\* The pool as a value, with the steps a running destroy has left.
PoolRec(ns, nf, ff, fuel) ==
  [nodes |-> ns, next_free |-> nf, first_free |-> ff, fuel |-> fuel]

\* teardown without the reset of the node: the slot is pushed on the
\* free-list still active.
teardown_keeps_node(S, idx) ==
  [S EXCEPT !.next_free = [S.next_free EXCEPT ![idx] = S.first_free],
            !.first_free = idx]

\* Lines 91-101 of destroy_idx_recursive: detach from the parent, reset the
\* node keeping its generation, push the slot on the free-list.
teardown(S, idx) ==
  LET ref == [index |-> idx, generation |-> S.nodes[idx].generation]
      n1  == IF S.nodes[idx].parent # 0 THEN detach(S.nodes, ref) ELSE S.nodes
      current_gen == n1[idx].generation
      n2  == [n1 EXCEPT ![idx] = [BlankNode EXCEPT !.generation = current_gen]]
  IN [S EXCEPT !.nodes = n2,
               !.next_free = [S.next_free EXCEPT ![idx] = S.first_free],
               !.first_free = idx]

RECURSIVE destroy_idx_recursive(_, _), destroy_children(_, _, _)

\* The child loop reading next_sibling after the recursive call, when the
\* child's links are already cleared: it stops after the first child.
destroy_children_late_read(S, child, first_child) ==
  IF S.fuel = 0 THEN S
  ELSE
    LET S1 == destroy_idx_recursive([S EXCEPT !.fuel = @ - 1], child)
        next_child == S1.nodes[child].next_sibling
    IN IF S1.fuel = 0 THEN S1
       ELSE IF next_child # 0 /\ next_child # first_child
            THEN destroy_children(S1, next_child, first_child)
            ELSE S1

\* ThingPool::destroy_idx_recursive.  fuel = 0 in the result: the call did
\* not return within Fuel steps.
destroy_idx_recursive(S, idx) ==
  IF S.fuel = 0 THEN S
  ELSE IF ~S.nodes[idx].is_active THEN S
  ELSE
    LET S0 == [S EXCEPT !.fuel = @ - 1]
        first_child == S0.nodes[idx].first_child
        S1 == IF first_child # 0
              THEN destroy_children(S0, first_child, first_child)
              ELSE S0
    IN IF S1.fuel = 0 THEN S1 ELSE teardown(S1, idx)

\* The do-while loop of destroy_idx_recursive (lines 84-88).
destroy_children(S, child, first_child) ==
  IF S.fuel = 0 THEN S
  ELSE
    LET next_child == S.nodes[child].next_sibling
        S1 == destroy_idx_recursive([S EXCEPT !.fuel = @ - 1], child)
    IN IF S1.fuel = 0 THEN S1
       ELSE IF next_child # 0 /\ next_child # first_child
            THEN destroy_children(S1, next_child, first_child)
            ELSE S1

\* destroy checking the index and the active flag but not the generation.
destroy_ignores_generation(S, ref) ==
  IF ref.index > 0 /\ ref.index < MAX_THINGS
  THEN IF S.nodes[ref.index].is_active
       THEN destroy_idx_recursive(S, ref.index) ELSE S
  ELSE S

\* ThingPool::destroy on the pool value.
destroy(S, ref) ==
  IF ~is_valid_in(S.nodes, ref) THEN S
  ELSE destroy_idx_recursive(S, ref.index)

\* ThingPool::spawn: the handle it returns.
spawn_ret(S) ==
  IF S.first_free = 0 THEN NilRef
  ELSE Ref(S.first_free, u32_inc(S.nodes[S.first_free].generation))

\* spawn without nodes[idx].is_active = true.
spawn_leaves_inactive(S) ==
  IF S.first_free = 0 THEN S
  ELSE
    LET idx == S.first_free
        new_gen == u32_inc(S.nodes[idx].generation)
    IN [S EXCEPT !.first_free = S.next_free[idx],
                 !.nodes = [S.nodes EXCEPT ![idx] =
                              [BlankNode EXCEPT !.generation = new_gen]]]

\* spawn without the first_free == 0 check: a full pool hands out slot 0.
spawn_no_full_check(S) ==
  LET idx == S.first_free
      new_gen == u32_inc(S.nodes[idx].generation)
  IN [S EXCEPT !.first_free = S.next_free[idx],
               !.nodes = [S.nodes EXCEPT ![idx] =
                            [BlankNode EXCEPT !.generation = new_gen,
                                              !.is_active = TRUE]]]

\* spawn without nodes[idx] = {}: the slot keeps what it held.
spawn_keeps_slot(S) ==
  IF S.first_free = 0 THEN S
  ELSE
    LET idx == S.first_free
        new_gen == u32_inc(S.nodes[idx].generation)
    IN [S EXCEPT !.first_free = S.next_free[idx],
                 !.nodes = [S.nodes EXCEPT ![idx].generation = new_gen,
                                           ![idx].is_active = TRUE]]

\* ThingPool::spawn: the pool it leaves.
spawn(S) ==
  IF S.first_free = 0 THEN S
  ELSE
    LET idx == S.first_free
        new_gen == u32_inc(S.nodes[idx].generation)
    IN [S EXCEPT !.first_free = S.next_free[idx],
                 !.nodes = [S.nodes EXCEPT ![idx] =
                              [BlankNode EXCEPT !.generation = new_gen,
                                                !.is_active = TRUE]]]

\* attach_child and detach as calls on the pool.
attach_child_call(S, parent_ref, child_ref) ==
  [S EXCEPT !.nodes = attach_child(S.nodes, parent_ref, child_ref)]

detach_call(S, ref) == [S EXCEPT !.nodes = detach(S.nodes, ref)]

\* get(ref) = v with the assert compiled out (NDEBUG).
get_assign(S, ref, v) ==
  [S EXCEPT !.nodes = [S.nodes EXCEPT ![get_node(S.nodes, ref)].data = v]]

\* Iterator::advance_to_next_active: the index the cursor stops at.
RECURSIVE advance_to_next_active(_, _)
advance_to_next_active(ns, current_idx) ==
  IF current_idx < MAX_THINGS /\ ~ns[current_idx].is_active
  THEN advance_to_next_active(ns, current_idx + 1)
  ELSE current_idx

\* An Iterator constructor that does not skip an inactive start slot.
Iterator_no_skip(ns, start_idx) == start_idx

\* Iterator(pool, start_idx): the cursor after construction.
Iterator(ns, start_idx) ==
  IF start_idx < MAX_THINGS /\ ~ns[start_idx].is_active
  THEN advance_to_next_active(ns, start_idx)
  ELSE start_idx

\* begin() and end().
begin(ns) == Iterator(ns, 1)
end(ns) == Iterator(ns, MAX_THINGS)

\* Iterator::operator++.
increment(ns, current_idx) == advance_to_next_active(ns, current_idx + 1)

\* Iterator::operator*: the ref of the PoolItem.
deref(ns, current_idx) == Ref(current_idx, ns[current_idx].generation)

\* for (auto item : pool): the refs yielded from cursor it until it equals
\* end(), for at most n increments.
RECURSIVE range_for(_, _, _)
range_for(ns, it, n) ==
  IF it = end(ns) \/ n = 0 THEN <<>>
  ELSE <<deref(ns, it)>> \o range_for(ns, increment(ns, it), n - 1)

traverse(ns) == range_for(ns, begin(ns), MAX_THINGS + 1)

\* The call fn(ref, data) as a value.
FnCall(ns, idx) == [ref |-> Ref(idx, ns[idx].generation), data |-> ns[idx].data]

\* for_kind whose loop does not test is_active.
RECURSIVE for_kind_any_slot(_, _, _)
for_kind_any_slot(ns, kind, idx) ==
  IF idx >= MAX_THINGS THEN <<>>
  ELSE IF ns[idx].data # kind THEN for_kind_any_slot(ns, kind, idx + 1)
  ELSE <<FnCall(ns, idx)>> \o for_kind_any_slot(ns, kind, idx + 1)

\* The loop of for_kind from index idx on: the calls of fn it makes, in
\* order.  The payload is modelled by its kind field.
RECURSIVE for_kind_from(_, _, _)
for_kind_from(ns, kind, idx) ==
  IF idx >= MAX_THINGS THEN <<>>
  ELSE IF ~ns[idx].is_active THEN for_kind_from(ns, kind, idx + 1)
  ELSE IF ns[idx].data # kind THEN for_kind_from(ns, kind, idx + 1)
  ELSE <<FnCall(ns, idx)>> \o for_kind_from(ns, kind, idx + 1)

\* for_kind(kind, fn), mutable overload.
for_kind(ns, kind) == for_kind_from(ns, kind, 1)

\* The loop of the const overload of for_kind.
RECURSIVE for_kind_const_from(_, _, _)
for_kind_const_from(ns, kind, idx) ==
  IF idx >= MAX_THINGS THEN <<>>
  ELSE IF ~ns[idx].is_active THEN for_kind_const_from(ns, kind, idx + 1)
  ELSE IF ns[idx].data # kind THEN for_kind_const_from(ns, kind, idx + 1)
  ELSE <<FnCall(ns, idx)>> \o for_kind_const_from(ns, kind, idx + 1)

\* for_kind(kind, fn) const.
for_kind_const(ns, kind) == for_kind_const_from(ns, kind, 1)

\* sizeof(Node) for T = int: generation 4, is_active 1 + 3 padding, four
\* links 16, data 4.
NodeSize == 28

\* SaveHeader with its default member initialisers.
SaveHeader ==
  [magic |-> "LOGC", version |-> 1, max_things |-> MAX_THINGS,
   node_size |-> NodeSize, first_free |-> 1]

\* A snapshot file: whether it can be opened, and the header, next_free and
\* node regions with the number of regions that are wholly there.
File(openable, header, nf, ns, regions) ==
  [openable |-> openable, header |-> header, next_free |-> nf, nodes |-> ns,
   regions |-> regions]

ZeroFree == [i \in Idx |-> 0]
ZeroNodes == [i \in Idx |-> BlankNode]

\* No file at the path.
NoFile == File(FALSE, SaveHeader, ZeroFree, ZeroNodes, 0)

\* detail::write_pool_to_disk.  io = -1: the stream cannot be opened;
\* io = k in 0..3: the stream goes bad after k whole regions.
write_pool_to_disk(old, header, nf, ns, io) ==
  IF io = 0 - 1 THEN [ok |-> FALSE, file |-> old]
  ELSE [ok |-> io = 3,
        file |-> File(TRUE,
                      IF io >= 1 THEN header ELSE SaveHeader,
                      IF io >= 2 THEN nf ELSE ZeroFree,
                      IF io >= 3 THEN ns ELSE ZeroNodes,
                      io)]

\* save_to_file that leaves header.first_free at its default.
save_default_header(S, old, io) ==
  write_pool_to_disk(old, SaveHeader, S.next_free, S.nodes, io)

\* ThingPool::save_to_file.
save_to_file(S, old, io) ==
  LET header == [SaveHeader EXCEPT !.first_free = S.first_free]
  IN write_pool_to_disk(old, header, S.next_free, S.nodes, io)

\* detail::read_pool_from_disk into the zero-initialised temporaries.
read_pool_from_disk(f) ==
  IF ~f.openable
  THEN [success |-> FALSE, header |-> [SaveHeader EXCEPT !.magic = "",
                                         !.version = 0, !.max_things = 0,
                                         !.node_size = 0, !.first_free = 0],
        next_free |-> ZeroFree, nodes |-> ZeroNodes]
  ELSE IF f.regions < 1
  THEN [success |-> FALSE, header |-> f.header,
        next_free |-> ZeroFree, nodes |-> ZeroNodes]
  ELSE [success |-> f.regions = 3, header |-> f.header,
        next_free |-> IF f.regions >= 2 THEN f.next_free ELSE ZeroFree,
        nodes |-> IF f.regions >= 3 THEN f.nodes ELSE ZeroNodes]

\* load_from_file that copies the arrays before it validates the header.
load_copies_first(S, f) ==
  LET r == read_pool_from_disk(f)
      copied == [S EXCEPT !.next_free = r.next_free, !.nodes = r.nodes]
  IN
  IF ~r.success THEN [ok |-> FALSE, pool |-> S]
  ELSE IF r.header.magic # "LOGC" THEN [ok |-> FALSE, pool |-> copied]
  ELSE IF r.header.max_things # MAX_THINGS \/ r.header.node_size # NodeSize
       THEN [ok |-> FALSE, pool |-> copied]
  ELSE IF r.header.first_free >= MAX_THINGS
       THEN [ok |-> FALSE, pool |-> copied]
  ELSE [ok |-> TRUE, pool |-> [copied EXCEPT !.first_free = r.header.first_free]]

\* load_from_file that also rejects a header whose version is not 1.
load_checks_version(S, f) ==
  LET r == read_pool_from_disk(f) IN
  IF ~r.success THEN [ok |-> FALSE, pool |-> S]
  ELSE IF r.header.magic # "LOGC" \/ r.header.version # 1
       THEN [ok |-> FALSE, pool |-> S]
  ELSE IF r.header.max_things # MAX_THINGS \/ r.header.node_size # NodeSize
       THEN [ok |-> FALSE, pool |-> S]
  ELSE IF r.header.first_free >= MAX_THINGS THEN [ok |-> FALSE, pool |-> S]
  ELSE [ok |-> TRUE,
        pool |-> [S EXCEPT !.next_free = r.next_free, !.nodes = r.nodes,
                           !.first_free = r.header.first_free]]

\* ThingPool::load_from_file: the value it returns and the pool it leaves.
load_from_file(S, f) ==
  LET r == read_pool_from_disk(f) IN
  IF ~r.success THEN [ok |-> FALSE, pool |-> S]
  ELSE IF r.header.magic # "LOGC" THEN [ok |-> FALSE, pool |-> S]
  ELSE IF r.header.max_things # MAX_THINGS \/ r.header.node_size # NodeSize
       THEN [ok |-> FALSE, pool |-> S]
  ELSE IF r.header.first_free >= MAX_THINGS THEN [ok |-> FALSE, pool |-> S]
  ELSE [ok |-> TRUE,
        pool |-> [S EXCEPT !.next_free = r.next_free, !.nodes = r.nodes,
                           !.first_free = r.header.first_free]]

\* Ways a file at the path can be unfit to load.
Damage ==
  {"missing", "short_header", "short_free", "short_nodes", "bad_magic",
   "bad_max_things", "bad_node_size", "bad_first_free"}

\* The file f with one kind of damage.
Damaged(f, how) ==
  CASE how = "missing"        -> NoFile
    [] how = "short_header"   -> [f EXCEPT !.regions = 0]
    [] how = "short_free"     -> [f EXCEPT !.regions = 1]
    [] how = "short_nodes"    -> [f EXCEPT !.regions = 2]
    [] how = "bad_magic"      -> [f EXCEPT !.header.magic = "XOGC"]
    [] how = "bad_max_things" -> [f EXCEPT !.header.max_things = MAX_THINGS + 4]
    [] how = "bad_node_size"  -> [f EXCEPT !.header.node_size = NodeSize + 4]
    [] how = "bad_first_free" -> [f EXCEPT !.header.first_free = MAX_THINGS]

\* Files a caller can point load_from_file at: the snapshot as written, and
\* the snapshot with each kind of damage.
FilesOnDisk == {file} \cup {Damaged(file, how) : how \in Damage}

\* Capacity of the deferred-destroy queue.
QueueCapacity == MAX_THINGS - 1

\* pending_destroy_count().
pending_destroy_count(q) == Len(q)

\* destroy_later that drops a handle already queued.
destroy_later_dedup(q, ref) ==
  IF ref.index = 0 \/ Len(q) >= QueueCapacity \/ (\E k \in 1 .. Len(q) : q[k] = ref)
  THEN [ok |-> FALSE, pending |-> q]
  ELSE [ok |-> TRUE, pending |-> Append(q, ref)]

\* destroy_later(ref): the value it returns and the queue it leaves.
destroy_later(q, ref) ==
  IF ref.index = 0 \/ Len(q) >= QueueCapacity
  THEN [ok |-> FALSE, pending |-> q]
  ELSE [ok |-> TRUE, pending |-> Append(q, ref)]

\* clear_destroy_later().
clear_destroy_later(q) == <<>>

\* flush_destroy_later(): destroy called on each queued handle in insertion
\* order; count is the number of entries that were valid at their own
\* destroy call.  The queue is empty afterwards.
RECURSIVE flush_destroy_later(_, _, _)
flush_destroy_later(S, q, count) ==
  IF q = <<>> \/ S.fuel = 0 THEN [pool |-> S, count |-> count]
  ELSE flush_destroy_later(destroy([S EXCEPT !.fuel = Fuel], Head(q)), Tail(q),
                           IF is_valid_in(S.nodes, Head(q))
                           THEN count + 1 ELSE count)

\* Predicates a caller passes to queue_destroy_if: pred(ref, data) is true
\* when data is one of the values in the set.
Preds == SUBSET Data

\* queue_destroy_if counting the slots pred accepted, enqueued or not.
RECURSIVE queue_destroy_if_counts_hits(_, _, _, _, _)
queue_destroy_if_counts_hits(ns, q, pred, idx, count) ==
  IF idx >= MAX_THINGS THEN [count |-> count, pending |-> q]
  ELSE IF ~ns[idx].is_active \/ ns[idx].data \notin pred
  THEN queue_destroy_if_counts_hits(ns, q, pred, idx + 1, count)
  ELSE queue_destroy_if_counts_hits(
         ns, destroy_later(q, Ref(idx, ns[idx].generation)).pending, pred,
         idx + 1, count + 1)

\* The scan of queue_destroy_if(pred) from slot idx on: pred is evaluated on
\* the active slots in ascending index order, destroy_later is called with
\* the slot's handle where pred is true, and count is the number of those
\* calls that returned true.
RECURSIVE queue_destroy_if_from(_, _, _, _, _)
queue_destroy_if_from(ns, q, pred, idx, count) ==
  IF idx >= MAX_THINGS THEN [count |-> count, pending |-> q]
  ELSE IF ~ns[idx].is_active \/ ns[idx].data \notin pred
  THEN queue_destroy_if_from(ns, q, pred, idx + 1, count)
  ELSE LET r == destroy_later(q, Ref(idx, ns[idx].generation))
       IN queue_destroy_if_from(ns, r.pending, pred, idx + 1,
                                IF r.ok THEN count + 1 ELSE count)

\* queue_destroy_if(pred): the count it returns and the queue it leaves.
queue_destroy_if(ns, q, pred) == queue_destroy_if_from(ns, q, pred, 1, 0)

\* A successful load that keeps the deferred-destroy queue.
load_keeps_pending(q, ok) == q

\* What load_from_file leaves of the deferred-destroy queue: emptied when
\* the load succeeds, untouched when it fails.
load_pending(q, ok) == IF ok THEN <<>> ELSE q

----------------------------------------------------------------------------
\* The pool in the current state.
Pool == PoolRec(nodes, next_free, first_free, Fuel)

\* A destroy call returned.
Returned(S) == S.fuel # 0

\* ThingPool(): slots blank, free-list 1 -> 2 -> ... -> MAX_THINGS-1 -> 0.
Constructed(b) ==
  /\ base = b
  /\ nodes = [i \in Idx |-> IF i = 0 THEN BlankNode
                            ELSE [BlankNode EXCEPT !.generation = b]]
  /\ next_free = [i \in Idx |-> IF i >= 1 /\ i < MAX_THINGS - 1
                                THEN i + 1 ELSE 0]
  /\ first_free = 1
  /\ halted = FALSE
  /\ steps = 0
  /\ pending = <<>>
  /\ file = NoFile
  /\ saved = PoolRec(ZeroNodes, ZeroFree, 0, 0)

\* A freshly constructed pool.
Init ==
  /\ Constructed(0)
  /\ issued = [i \in Slots |-> <<>>]
  /\ dead = {}

\* The pool after 2^32 - 1 rounds of spawning every slot and destroying
\* them in reverse order: the free-list is as constructed, every generation
\* is 4294967295, the last handle issued for slot i was (i, 4294967295),
\* and (i, 1), issued in the first round, has long been destroyed.
InitAged ==
  /\ Constructed(U32Max)
  /\ issued = [i \in Slots |-> <<U32Max>>]
  /\ dead = {Ref(i, g) : i \in Slots, g \in {1, U32Max}}

\* Spawn calls slot i has served since the run started.
Spawned(i) == nodes[i].generation - base

CanCall == ~halted /\ steps < MaxSteps

\* The call left the pool S; r is the handle it returned (NilRef if none).
Leaves(S, r) ==
  /\ nodes' = S.nodes
  /\ next_free' = S.next_free
  /\ first_free' = S.first_free
  /\ steps' = steps + 1
  /\ issued' = IF r = NilRef THEN issued
               ELSE [issued EXCEPT ![r.index] = Append(@, r.generation)]
  /\ dead' = dead \cup {h \in IssuedHandles(issued') : ~is_valid_in(S.nodes, h)}
  /\ UNCHANGED <<base, halted>>

\* A call that touches neither the deferred-destroy queue nor the file.
Becomes(S, r) == Leaves(S, r) /\ UNCHANGED <<pending, file, saved>>

\* The call did not return.
Diverges ==
  /\ halted' = TRUE
  /\ steps' = steps + 1
  /\ UNCHANGED <<nodes, next_free, first_free, base, issued, dead,
                 pending, file, saved>>

Spawn ==
  /\ CanCall
  /\ first_free # 0 => Spawned(first_free) < MaxSpawns
  /\ Becomes(spawn(Pool), spawn_ret(Pool))

Destroy(ref) ==
  /\ CanCall
  /\ LET S == destroy(Pool, ref) IN
     IF Returned(S)
     THEN Becomes(S, NilRef)
     ELSE Diverges

AttachChild(parent_ref, child_ref) ==
  /\ CanCall
  /\ Becomes(attach_child_call(Pool, parent_ref, child_ref), NilRef)

Detach(ref) ==
  /\ CanCall
  /\ Becomes(detach_call(Pool, ref), NilRef)

Write(ref, v) ==
  /\ CanCall
  /\ Becomes(get_assign(Pool, ref, v), NilRef)

Next ==
  \/ Spawn
  \/ \E h \in Handles : Destroy(h)
  \/ \E p \in Handles, c \in Handles : AttachChild(p, c)
  \/ \E h \in Handles : Detach(h)
  \/ \E h \in Handles, v \in Data : Write(h, v)

Spec == Init /\ [][Next]_vars

\* destroy_later that also destroys the handle on the spot.
DestroyLaterEager(ref) ==
  /\ CanCall
  /\ pending' = destroy_later(pending, ref).pending
  /\ Leaves(destroy(Pool, ref), NilRef)
  /\ UNCHANGED <<file, saved>>

DestroyLater(ref) ==
  /\ CanCall
  /\ pending' = destroy_later(pending, ref).pending
  /\ Leaves(Pool, NilRef)
  /\ UNCHANGED <<file, saved>>

FlushDestroyLater ==
  /\ CanCall
  /\ LET r == flush_destroy_later(Pool, pending, 0) IN
     IF Returned(r.pool)
     THEN /\ Leaves(r.pool, NilRef)
          /\ pending' = <<>>
          /\ UNCHANGED <<file, saved>>
     ELSE Diverges

\* clear_destroy_later that destroys what is queued, as a flush does.
ClearAsFlush ==
  /\ CanCall
  /\ pending' = <<>>
  /\ Leaves([flush_destroy_later(Pool, pending, 0).pool EXCEPT !.fuel = Fuel],
            NilRef)
  /\ UNCHANGED <<file, saved>>

ClearDestroyLater ==
  /\ CanCall
  /\ pending' = clear_destroy_later(pending)
  /\ Leaves(Pool, NilRef)
  /\ UNCHANGED <<file, saved>>

QueueDestroyIf(pred) ==
  /\ CanCall
  /\ pending' = queue_destroy_if(nodes, pending, pred).pending
  /\ Leaves(Pool, NilRef)
  /\ UNCHANGED <<file, saved>>

SaveToFile(io) ==
  /\ CanCall
  /\ LET r == save_to_file(Pool, file, io) IN
     /\ file' = r.file
     /\ saved' = IF r.ok THEN Pool
                 ELSE IF io = 0 - 1 THEN saved
                 ELSE PoolRec(ZeroNodes, ZeroFree, 0, 0)
  /\ Leaves(Pool, NilRef)
  /\ UNCHANGED pending

LoadFromFile(f) ==
  /\ CanCall
  /\ LET r == load_from_file(Pool, f) IN
     /\ Leaves(r.pool, NilRef)
     /\ pending' = load_pending(pending, r.ok)
  /\ UNCHANGED <<file, saved>>

\* The run with the deferred-destroy queue goes on.
QueueCall == steps < MaxQueueSteps

\* The pool with its deferred-destroy queue, followed for MaxQueueSteps
\* calls.
NextQueue ==
  \/ QueueCall /\ Spawn
  \/ \E h \in Handles : QueueCall /\ Destroy(h)
  \/ \E p \in Handles, c \in Handles : QueueCall /\ AttachChild(p, c)
  \/ \E h \in Handles : QueueCall /\ Detach(h)
  \/ \E h \in Handles, v \in Data : QueueCall /\ Write(h, v)
  \/ \E h \in Handles : QueueCall /\ DestroyLater(h)
  \/ QueueCall /\ FlushDestroyLater
  \/ QueueCall /\ ClearDestroyLater
  \/ \E pred \in Preds : QueueCall /\ QueueDestroyIf(pred)

SpecQueue == Init /\ [][NextQueue]_vars

\* The run with the queue and the snapshot file goes on.
WorldCall == steps < MaxWorldSteps

\* The pool with its deferred-destroy queue and snapshot file, followed for
\* MaxWorldSteps calls.
NextWorld ==
  \/ WorldCall /\ Spawn
  \/ \E h \in Handles : WorldCall /\ Destroy(h)
  \/ \E p \in Handles, c \in Handles : WorldCall /\ AttachChild(p, c)
  \/ \E h \in Handles : WorldCall /\ Detach(h)
  \/ \E h \in Handles, v \in Data : WorldCall /\ Write(h, v)
  \/ \E h \in Handles : WorldCall /\ DestroyLater(h)
  \/ WorldCall /\ FlushDestroyLater
  \/ WorldCall /\ ClearDestroyLater
  \/ \E pred \in Preds : WorldCall /\ QueueDestroyIf(pred)
  \/ \E io \in (0 - 1) .. 3 : WorldCall /\ SaveToFile(io)
  \/ \E f \in FilesOnDisk : WorldCall /\ LoadFromFile(f)

SpecWorld == Init /\ [][NextWorld]_vars

SpecAged == InitAged /\ [][Next]_vars

\* The run that looks at hierarchy and free-list shape goes on.
TreeCall == steps < MaxTreeSteps

\* The pool calls, followed for MaxTreeSteps calls.
NextTree ==
  \/ TreeCall /\ Spawn
  \/ \E h \in Handles : TreeCall /\ Destroy(h)
  \/ \E p \in Handles, c \in Handles : TreeCall /\ AttachChild(p, c)
  \/ \E h \in Handles : TreeCall /\ Detach(h)
  \/ \E h \in Handles, v \in Data : TreeCall /\ Write(h, v)

SpecTree == Init /\ [][NextTree]_vars

\* Slot a lies on the parent chain of slot x, within n links.
RECURSIVE IsAncestor(_, _, _, _)
IsAncestor(ns, a, x, n) ==
  IF n = 0 \/ ns[x].parent = 0 THEN FALSE
  ELSE ns[x].parent = a \/ IsAncestor(ns, a, ns[x].parent, n - 1)

\* An attach_child call that gets past its get_node checks and passes a
\* child equal to the parent or an ancestor of the parent.
CyclicAttach(parent_ref, child_ref) ==
  /\ get_node(nodes, parent_ref) # 0
  /\ get_node(nodes, child_ref) # 0
  /\ \/ child_ref.index = parent_ref.index
     \/ IsAncestor(nodes, child_ref.index, parent_ref.index, MAX_THINGS)

\* The callers that never make such a call.
NextForest ==
  \/ TreeCall /\ Spawn
  \/ \E h \in Handles : TreeCall /\ Destroy(h)
  \/ \E p \in Handles, c \in Handles :
       TreeCall /\ ~CyclicAttach(p, c) /\ AttachChild(p, c)
  \/ \E h \in Handles : TreeCall /\ Detach(h)
  \/ \E h \in Handles, v \in Data : TreeCall /\ Write(h, v)

SpecForest == Init /\ [][NextForest]_vars

\* Array regions of a file that no save_to_file of this pool wrote.
ForeignFree == [i \in Idx |-> MAX_THINGS - 1]
ForeignNodes ==
  [i \in Idx |-> [generation |-> 7, is_active |-> TRUE, parent |-> i,
                  first_child |-> MAX_THINGS - 1, next_sibling |-> 0,
                  prev_sibling |-> i, data |-> 1]]

\* Files of any origin at the path: every combination of openable or not,
\* zero to three whole regions, the five SaveHeader fields right or wrong,
\* and the array regions of f or foreign ones.
Variants(f) ==
  {File(o, [magic |-> m, version |-> v, max_things |-> mt, node_size |-> sz,
            first_free |-> ff], c[1], c[2], rg) :
     o \in BOOLEAN, m \in {"LOGC", "XOGC"}, v \in {1, 2},
     mt \in {MAX_THINGS, MAX_THINGS + 4}, sz \in {NodeSize, NodeSize + 4},
     ff \in {f.header.first_free, MAX_THINGS - 1, MAX_THINGS},
     c \in {<<f.next_free, f.nodes>>, <<ForeignFree, ForeignNodes>>},
     rg \in 0 .. 3}

\* Files a caller can point load_from_file at when snapshots of other
\* writers are around: FilesOnDisk, the snapshot with another version, and
\* the snapshot with foreign array regions.
FilesOfAnyWriter ==
  FilesOnDisk
    \cup {[file EXCEPT !.header.version = 2],
          [file EXCEPT !.next_free = ForeignFree, !.nodes = ForeignNodes]}

\* The run that loads files of any writer goes on.
LoadCall == steps < MaxLoadSteps

\* The pool and its snapshot file, followed for MaxLoadSteps calls.
NextLoad ==
  \/ LoadCall /\ Spawn
  \/ \E h \in Handles : LoadCall /\ Destroy(h)
  \/ \E h \in Handles, v \in Data : LoadCall /\ Write(h, v)
  \/ \E io \in (0 - 1) .. 3 : LoadCall /\ SaveToFile(io)
  \/ \E f \in FilesOfAnyWriter : LoadCall /\ LoadFromFile(f)

SpecLoad == Init /\ [][NextLoad]_vars

\* Handle arguments a caller holds without making any up: nil, and every
\* handle spawn ever returned, valid or stale.
HandedOut == {NilRef} \cup IssuedHandles(issued) \cup dead

\* spawn, destroy, attach_child and detach on handles the pool handed out,
\* followed for MaxTreeSteps calls.
NextHandedOut ==
  \/ TreeCall /\ Spawn
  \/ \E h \in HandedOut : TreeCall /\ Destroy(h)
  \/ \E p \in HandedOut, c \in HandedOut : TreeCall /\ AttachChild(p, c)
  \/ \E h \in HandedOut : TreeCall /\ Detach(h)

SpecHandedOut == Init /\ [][NextHandedOut]_vars

----------------------------------------------------------------------------
\* Vocabulary of the properties.

Range(q) == {q[k] : k \in 1 .. Len(q)}
NoDup(q) == \A j, k \in 1 .. Len(q) : q[j] = q[k] => j = k

RECURSIVE free_walk(_, _, _), ring_walk(_, _, _, _), closure(_, _, _),
          without(_, _)

\* The slots met following next_free from i, for at most n links.
free_walk(nf, i, n) ==
  IF i = 0 \/ n = 0 THEN <<>> ELSE <<i>> \o free_walk(nf, nf[i], n - 1)

FreeList == free_walk(next_free, first_free, MAX_THINGS)

\* The slots met following next_sibling from c until the ring closes at f.
ring_walk(ns, f, c, n) ==
  IF c = 0 \/ n = 0 \/ (c = f /\ n < MAX_THINGS) THEN <<>>
  ELSE <<c>> \o ring_walk(ns, f, ns[c].next_sibling, n - 1)

\* The children of slot p in ring order, head first.
ChildList(ns, p) ==
  ring_walk(ns, ns[p].first_child, ns[p].first_child, MAX_THINGS)

closure(ns, X, n) ==
  IF n = 0 THEN X
  ELSE closure(ns, X \cup UNION {Range(ChildList(ns, x)) : x \in X}, n - 1)

\* Slot r and every slot reachable from it through child rings.
Subtree(ns, r) == closure(ns, {r}, MAX_THINGS)

\* q without the entries equal to x.
without(q, x) ==
  IF q = <<>> THEN <<>>
  ELSE IF Head(q) = x THEN without(Tail(q), x)
  ELSE <<Head(q)>> \o without(Tail(q), x)

Links(n) == <<n.parent, n.first_child, n.next_sibling, n.prev_sibling>>

RECURSIVE reaches_root(_, _, _)
reaches_root(ns, i, n) ==
  IF i = 0 THEN TRUE
  ELSE IF n = 0 THEN FALSE ELSE reaches_root(ns, ns[i].parent, n - 1)

\* A well-formed hierarchy: links live in active slots only and name active
\* slots, every child sits once in its parent's ring, rings are doubly
\* linked, and the parent links form a forest.
WellFormed(ns) ==
  /\ \A i \in Idx : ~ns[i].is_active => Links(ns[i]) = <<0, 0, 0, 0>>
  /\ \A i \in Slots : ns[i].is_active =>
       /\ reaches_root(ns, i, MAX_THINGS)
       /\ NoDup(ChildList(ns, i))
       /\ \A c \in Range(ChildList(ns, i)) :
            ns[c].is_active /\ ns[c].parent = i
       /\ IF ns[i].parent = 0
          THEN ns[i].next_sibling = 0 /\ ns[i].prev_sibling = 0
          ELSE /\ ns[ns[i].parent].is_active
               /\ i \in Range(ChildList(ns, ns[i].parent))
               /\ ns[i].next_sibling # 0 /\ ns[i].prev_sibling # 0
               /\ ns[ns[i].next_sibling].prev_sibling = i
               /\ ns[ns[i].prev_sibling].next_sibling = i

ActiveSlots == {i \in Slots : nodes[i].is_active}

----------------------------------------------------------------------------
\* C1: in every reachable state spawn returns NilRef exactly when
\* first_free = 0, which is exactly when all slots 1..MAX_THINGS-1 are
\* active, and then leaves the pool as it was; otherwise it returns a handle
\* with 0 < index < MAX_THINGS that is_valid accepts right after the call.
SpawnContract ==
  LET r == spawn_ret(Pool)
      S == spawn(Pool)
  IN /\ (r = NilRef) <=> (first_free = 0)
     /\ (first_free = 0) <=> (ActiveSlots = Slots)
     /\ r = NilRef => S = Pool
     /\ r # NilRef => r.index \in Slots /\ is_valid_in(S.nodes, r)

\* A fresh pool after exactly MAX_THINGS - 1 calls, all spawns, now full.
SpawnedUntilFull ==
  /\ steps = MAX_THINGS - 1
  /\ first_free = 0
  /\ ActiveSlots = Slots
  /\ spawn_ret(Pool) = NilRef

\* C2: for every handle h, valid or not, is_valid(h) is false in the pool
\* that destroy(h) leaves when it returns.
DestroyInvalidates ==
  \A h \in Handles :
    LET S == destroy(Pool, h) IN Returned(S) => ~is_valid_in(S.nodes, h)

\* A handle spawn returned whose slot now lies destroyed and not reused.
DestroyedHandle ==
  \E h \in dead :
    /\ ~nodes[h.index].is_active
    /\ nodes[h.index].generation = h.generation
    /\ ~is_valid(h)

\* C3: in a well-formed hierarchy destroy(root) on a valid root returns,
\* leaves every slot of root's subtree inactive, and leaves every other slot
\* with its active flag, generation, payload, parent and child list as they
\* were, except that root is gone from its former parent's child list; slots
\* that were neither root's parent nor its ring neighbours keep all four
\* links.
DestroySubtreeOnly ==
  \A h \in Handles :
    (is_valid(h) /\ WellFormed(nodes)) =>
      LET S   == destroy(Pool, h)
          sub == Subtree(nodes, h.index)
          par == nodes[h.index].parent
          sib == {nodes[h.index].next_sibling, nodes[h.index].prev_sibling}
      IN /\ Returned(S)
         /\ \A i \in sub : ~S.nodes[i].is_active
         /\ \A i \in Idx \ sub :
              /\ S.nodes[i].is_active = nodes[i].is_active
              /\ S.nodes[i].generation = nodes[i].generation
              /\ S.nodes[i].data = nodes[i].data
              /\ S.nodes[i].parent = nodes[i].parent
              /\ ChildList(S.nodes, i) = without(ChildList(nodes, i), h.index)
              /\ (i # par => ChildList(S.nodes, i) = ChildList(nodes, i))
              /\ (i \notin sib \cup {par} =>
                    Links(S.nodes[i]) = Links(nodes[i]))

\* A well-formed chain parent -> root -> child with a written payload in the
\* parent, where destroy(root) is the next call.
ChainBeforeDestroy ==
  /\ WellFormed(nodes)
  /\ \E h \in Handles :
       /\ is_valid(h)
       /\ nodes[h.index].parent # 0
       /\ nodes[h.index].first_child # 0
       /\ nodes[nodes[h.index].parent].data # 0
       /\ Cardinality(Subtree(nodes, h.index)) = 2
       /\ ~is_valid_in(destroy(Pool, h).nodes, h)

\* C4: a handle spawn returned that has since been destroyed is invalid in
\* every later state, and when spawn reuses its slot the new handle is valid
\* and differs from it.
StaleStaysInvalid ==
  \A h \in dead :
    /\ ~is_valid(h)
    /\ LET r == spawn_ret(Pool)
           S == spawn(Pool)
       IN r.index = h.index =>
            /\ r # h
            /\ is_valid_in(S.nodes, r)
            /\ ~is_valid_in(S.nodes, h)

\* C5: for every slot the generations spawn issued, in the order it issued
\* them, are strictly increasing as uint32_t values.
GenerationsIncrease ==
  \A i \in Slots :
    \A k \in 1 .. (Len(issued[i]) - 1) :
      u32_less(issued[i][k], issued[i][k + 1])

\* C6: following next_free from first_free ends at 0 after visiting each
\* inactive slot of 1..MAX_THINGS-1 exactly once and no active slot, so
\* active slots + free-list length = MAX_THINGS - 1.
FreeListExact ==
  /\ Len(FreeList) < MAX_THINGS
  /\ NoDup(FreeList)
  /\ Range(FreeList) = Slots \ ActiveSlots
  /\ Cardinality(ActiveSlots) + Len(FreeList) = MAX_THINGS - 1

\* Destroys have pushed slots back in an order other than the initial one,
\* with another slot still active.
FreeListReordered ==
  /\ first_free # 0
  /\ next_free[first_free] # 0
  /\ next_free[first_free] < first_free
  /\ ActiveSlots # {}

\* C7: attach_child(p, c) leaves the whole pool unchanged whenever p or c is
\* not valid.
AttachInvalidNoop ==
  \A p \in Handles, c \in Handles :
    (~is_valid(p) \/ ~is_valid(c)) => attach_child_call(Pool, p, c) = Pool

\* C8: destroy(h) leaves the whole pool unchanged whenever h is not valid.
DestroyInvalidNoop ==
  \A h \in Handles : ~is_valid(h) => destroy(Pool, h) = Pool

\* A destroyed handle whose slot a later spawn has taken over.
StaleAfterReuse ==
  \E h \in dead :
    /\ nodes[h.index].is_active
    /\ nodes[h.index].generation # h.generation
    /\ destroy(Pool, h) = Pool

\* C9: detach(h) leaves the whole pool unchanged whenever h is not valid or
\* the node h names has parent = 0.
DetachNoop ==
  \A h \in Handles :
    (~is_valid(h) \/ nodes[h.index].parent = 0) => detach_call(Pool, h) = Pool

\* What attach_child and detach must leave alone in the pool S they return.
LinksOnly(S) ==
  \/ S = Pool
  \/ /\ S.next_free = next_free
     /\ S.first_free = first_free
     /\ \A i \in Idx : /\ S.nodes[i].is_active = nodes[i].is_active
                       /\ S.nodes[i].generation = nodes[i].generation
                       /\ S.nodes[i].data = nodes[i].data
     /\ \A h \in Handles : is_valid_in(S.nodes, h) = is_valid(h)

\* C10: attach_child and detach change hierarchy links only: is_valid of
\* every handle, every active flag, generation and payload, and the
\* free-list are the same after the call, whatever the arguments.
LinkCallsFrame ==
  /\ \A p \in Handles, c \in Handles :
       \A S \in {attach_child_call(Pool, p, c)} : LinksOnly(S)
  /\ \A h \in Handles :
       \A S \in {detach_call(Pool, h)} : LinksOnly(S)

\* A valid child with a written payload sits under a valid parent, and
\* detaching it rewires the pool.
AttachedWithPayload ==
  \E h \in Handles :
    /\ is_valid(h)
    /\ nodes[h.index].data # 0
    /\ nodes[h.index].parent # 0
    /\ nodes[nodes[h.index].parent].is_active
    /\ detach_call(Pool, h) # Pool

\* C11: for every active slot i with parent p # 0, p is active, i occurs
\* exactly once in the ring followed by next_sibling from p.first_child,
\* every member of that ring has parent p, and next_sibling[prev_sibling[i]]
\* = i and prev_sibling[next_sibling[i]] = i.
RingsConsistent ==
  \A i \in ActiveSlots :
    LET p == nodes[i].parent
        ring == ChildList(nodes, p)
    IN p # 0 =>
         /\ nodes[p].is_active
         /\ Cardinality({k \in 1 .. Len(ring) : ring[k] = i}) = 1
         /\ \A c \in Range(ring) : nodes[c].parent = p
         /\ nodes[nodes[i].prev_sibling].next_sibling = i
         /\ nodes[nodes[i].next_sibling].prev_sibling = i

\* C12: with the assertion compiled out, get(h) refers to the payload of
\* slot 0 for every handle h that is_valid rejects: nil, an index >=
\* MAX_THINGS, a stale generation, or a handle spawn returned whose slot was
\* destroyed and not reused.
GetInvalidIsSlotZero ==
  \A h \in {NilRef, Ref(MAX_THINGS, 0)} \cup IssuedHandles(issued) \cup dead :
    ~is_valid(h) => get_node(nodes, h) = 0

\* C13: a traversal from begin() to end() yields the active slots, each
\* once, in strictly ascending index order, never slot 0 and no inactive
\* slot, each as the handle (index, current generation) that is_valid
\* accepts; the number of items is the number of active slots.
TraversalExact ==
  LET t == traverse(nodes) IN
  /\ Len(t) = Cardinality(ActiveSlots)
  /\ Len(t) <= MAX_THINGS - 1
  /\ {t[k].index : k \in 1 .. Len(t)} = ActiveSlots
  /\ \A k \in 1 .. Len(t) :
       /\ t[k].index # 0
       /\ t[k] = Ref(t[k].index, nodes[t[k].index].generation)
       /\ is_valid(t[k])
  /\ \A k \in 1 .. (Len(t) - 1) : t[k].index < t[k + 1].index

\* Slot 1 was destroyed and the higher slots 2 and 3 are active: the
\* traversal has to skip the start slot.
TraversalSkipsHole ==
  /\ ~nodes[1].is_active
  /\ nodes[1].generation # base
  /\ nodes[2].is_active /\ nodes[3].is_active
  /\ Len(traverse(nodes)) = 2

\* C14: for_kind(k, fn) calls fn once for each active slot whose payload has
\* kind k, in ascending index order, with that slot's valid handle and
\* payload, and for no other slot; the const overload makes the same calls.
ForKindExact ==
  \A kind \in Data :
    LET calls == for_kind(nodes, kind) IN
    /\ {calls[k].ref.index : k \in 1 .. Len(calls)} =
         {i \in ActiveSlots : nodes[i].data = kind}
    /\ \A k \in 1 .. Len(calls) :
         /\ is_valid(calls[k].ref)
         /\ calls[k].data = nodes[calls[k].ref.index].data
         /\ calls[k].data = kind
    /\ \A k \in 1 .. (Len(calls) - 1) :
         calls[k].ref.index < calls[k + 1].ref.index
    /\ for_kind_const(nodes, kind) = calls

\* Two active slots of different kinds next to a destroyed slot.
ForKindMixedPool ==
  /\ \E i, j \in ActiveSlots : nodes[i].data = 0 /\ nodes[j].data = 1
  /\ \E i \in Slots : ~nodes[i].is_active /\ nodes[i].generation # base
  /\ Len(for_kind(nodes, 1)) = 1

\* A save_to_file has returned true and its file is still on disk.
HasSaved == saved.fuel # 0

\* C15: when save_to_file on a pool P returned true, load_from_file of that
\* file into the pool as it is now, whatever happened to it since, returns
\* true and leaves nodes, next_free and first_free equal to P's: is_valid
\* agrees with P on every handle, and the next spawn returns the handle it
\* would return from P.
RoundTrip ==
  HasSaved =>
    \A r \in {load_from_file(Pool, file)} :
      /\ r.ok
      /\ r.pool.nodes = saved.nodes
      /\ r.pool.next_free = saved.next_free
      /\ r.pool.first_free = saved.first_free
      /\ \A h \in Handles :
           is_valid_in(r.pool.nodes, h) = is_valid_in(saved.nodes, h)
      /\ spawn_ret(r.pool) = spawn_ret(saved)
      /\ spawn(r.pool) = spawn(saved)

\* A pool was saved with a written payload in an active slot, and has since
\* changed its nodes and its free-list head.
SavedThenChanged ==
  /\ HasSaved
  /\ \E i \in Slots : saved.nodes[i].is_active /\ saved.nodes[i].data # 0
  /\ nodes # saved.nodes
  /\ first_free # saved.first_free
  /\ saved.first_free # 1
  /\ load_from_file(Pool, file).pool # Pool

\* C16: load_from_file returns false for a file that cannot be opened, a
\* short header, free-list or node region, a wrong magic, max_things or
\* node_size, and first_free >= MAX_THINGS; and whenever it returns false,
\* nodes, next_free, first_free and the deferred-destroy queue are as before
\* the call.
LoadFailureKeepsState ==
  /\ \A how \in Damage : ~load_from_file(Pool, Damaged(file, how)).ok
  /\ \A f \in FilesOnDisk :
       \A r \in {load_from_file(Pool, f)} :
         ~r.ok => r.pool = Pool /\ load_pending(pending, r.ok) = pending

\* A pool with a written payload and a queued handle, differing from the
\* snapshot on disk, is asked to load that snapshot with a wrong magic.
LoadFailsOnDamagedFile ==
  /\ HasSaved
  /\ pending # <<>>
  /\ \E i \in ActiveSlots : nodes[i].data # 0
  /\ nodes # saved.nodes
  /\ ~load_from_file(Pool, Damaged(file, "bad_magic")).ok

\* C17: after a load_from_file that returns true the deferred-destroy queue
\* is empty: pending_destroy_count() is 0 and an immediate
\* flush_destroy_later() returns 0 and leaves the loaded pool as it is.
LoadClearsQueue ==
  \A f \in FilesOnDisk :
    \A r \in {load_from_file(Pool, f)} :
      r.ok =>
        LET q  == load_pending(pending, r.ok)
            fl == flush_destroy_later(r.pool, q, 0)
        IN /\ pending_destroy_count(q) = 0
           /\ fl.count = 0
           /\ fl.pool = r.pool

\* A handle is queued that is valid in the snapshot on disk.
QueuedHandleSurvivesLoad ==
  /\ HasSaved
  /\ \E k \in 1 .. Len(pending) : is_valid_in(saved.nodes, pending[k])
  /\ load_from_file(Pool, file).ok

\* C18: destroy_later(h) returns false and leaves the queue as it is exactly
\* when h.index = 0 or the queue holds MAX_THINGS - 1 entries; otherwise it
\* appends h at the tail, whether h is valid or queued already, returns true
\* and pending_destroy_count() grows by 1.  The count stays within
\* 0 .. MAX_THINGS - 1.
DestroyLaterContract ==
  /\ pending_destroy_count(pending) >= 0
  /\ pending_destroy_count(pending) <= MAX_THINGS - 1
  /\ \A h \in Handles :
       \A r \in {destroy_later(pending, h)} :
         /\ ~r.ok <=> (h.index = 0 \/ Len(pending) = MAX_THINGS - 1)
         /\ ~r.ok => r.pending = pending
         /\ r.ok => /\ r.pending = Append(pending, h)
                    /\ pending_destroy_count(r.pending) =
                         pending_destroy_count(pending) + 1

\* The queue is full and holds a destroyed handle twice.
QueueFullWithStale ==
  /\ Len(pending) = MAX_THINGS - 1
  /\ \E j, k \in 1 .. Len(pending) :
       j # k /\ pending[j] = pending[k] /\ pending[j] \in dead
  /\ \A h \in Handles : ~destroy_later(pending, h).ok

\* The pool after destroy was called on the first k queued handles in turn.
RECURSIVE AfterDestroys(_)
AfterDestroys(k) ==
  IF k = 0 THEN Pool
  ELSE LET S == AfterDestroys(k - 1)
       IN IF S.fuel = 0 THEN S
          ELSE destroy([S EXCEPT !.fuel = Fuel], pending[k])

\* Slots in the subtree of a queued handle that is valid now.
QueuedSubtrees ==
  UNION {Subtree(nodes, h.index) : h \in {g \in Range(pending) : is_valid(g)}}

\* C19: a flush_destroy_later() that returns leaves the pool that destroy
\* called on the queued handles in insertion order leaves, and returns the
\* number of entries that were valid at their own destroy call: no queued
\* handle is valid afterwards, a duplicate counts once, in a well-formed
\* hierarchy the child of an entry destroyed earlier in the flush counts
\* zero, and every valid handle outside the subtrees of the queued valid
\* handles, such as the replacement of a stale entry, stays valid.
FlushContract ==
  \A r \in {flush_destroy_later(Pool, pending, 0)} :
    Returned(r.pool) =>
      /\ r.pool = AfterDestroys(Len(pending))
      /\ r.count = Cardinality({k \in 1 .. Len(pending) :
                      is_valid_in(AfterDestroys(k - 1).nodes, pending[k])})
      /\ r.count <= Cardinality({h \in Range(pending) : is_valid(h)})
      /\ \A k \in 1 .. Len(pending) : ~is_valid_in(r.pool.nodes, pending[k])
      /\ \A k \in 2 .. Len(pending) :
           (\E j \in 1 .. (k - 1) :
              \/ pending[j] = pending[k]
              \/ /\ is_valid(pending[j])
                 /\ is_valid_in(AfterDestroys(j - 1).nodes, pending[j])
                 /\ is_valid(pending[k])
                 /\ nodes[pending[k].index].parent = pending[j].index
                 /\ WellFormed(nodes))
             => ~is_valid_in(AfterDestroys(k - 1).nodes, pending[k])
      /\ \A h \in Handles :
           (is_valid(h) /\ h.index \notin QueuedSubtrees)
             => is_valid_in(r.pool.nodes, h)

\* A valid parent is queued ahead of its valid child, in a well-formed
\* hierarchy, and the flush returns 1.
QueuedAncestorAndDescendant ==
  /\ WellFormed(nodes)
  /\ Len(pending) = 2
  /\ is_valid(pending[1]) /\ is_valid(pending[2])
  /\ nodes[pending[2].index].parent = pending[1].index
  /\ flush_destroy_later(Pool, pending, 0).count = 1

NoQueuedDescendant ==
  \A g, h \in {x \in Range(pending) : is_valid(x)} :
    g # h => h.index \notin Subtree(nodes, g.index)

SameToObservers ==
  /\ traverse(nodes') = traverse(nodes)
  /\ \A h \in Handles : is_valid_in(nodes', h) = is_valid(h)

\* C21: a destroy_later(h) call changes the queue only: nodes (active flags,
\* generations, payloads, links), next_free and first_free are as before,
\* so is_valid of every handle, h included, and the slots a traversal yields
\* are as before; the queue is as before or longer by the entry h.
DestroyLaterDefers ==
  [][\A h \in Handles :
       DestroyLater(h) =>
         /\ UNCHANGED <<nodes, next_free, first_free>>
         /\ SameToObservers
         /\ pending' \in {pending, Append(pending, h)}]_vars

\* A valid handle with a written payload is queued and still valid.
QueuedStillValid ==
  \E k \in 1 .. Len(pending) :
    /\ is_valid(pending[k])
    /\ nodes[pending[k].index].data # 0
    /\ pending[k].index \in {t.index : t \in Range(traverse(nodes))}

\* C22: a clear_destroy_later() call leaves pending_destroy_count() = 0 and
\* nodes, next_free and first_free as before, so nothing was destroyed, and
\* a flush_destroy_later() right after it returns 0.
ClearDestroysNothing ==
  [][ClearDestroyLater =>
       /\ pending_destroy_count(pending') = 0
       /\ UNCHANGED <<nodes, next_free, first_free>>
       /\ SameToObservers
       /\ flush_destroy_later(PoolRec(nodes', next_free', first_free', Fuel),
                              pending', 0).count = 0]_vars

\* The queue holds two different valid handles, which a flush would destroy,
\* when clear_destroy_later() is called.
ClearableLiveQueue ==
  /\ Len(pending) = 2
  /\ pending[1] # pending[2]
  /\ is_valid(pending[1]) /\ is_valid(pending[2])
  /\ flush_destroy_later(Pool, pending, 0).count = 2
  /\ ENABLED ClearDestroyLater

\* The handles of the active slots whose payload pred accepts, in ascending
\* index order.
RECURSIVE Matching(_, _)
Matching(pred, idx) ==
  IF idx >= MAX_THINGS THEN <<>>
  ELSE IF nodes[idx].is_active /\ nodes[idx].data \in pred
       THEN <<Ref(idx, nodes[idx].generation)>> \o Matching(pred, idx + 1)
       ELSE Matching(pred, idx + 1)

\* C23: queue_destroy_if(pred) appends to the queue the handles of the
\* active slots pred accepts, in ascending index order, as far as the queue
\* has room, and returns the number it appended; the handles are the slots'
\* current valid handles, and the pool is not part of what the call
\* changes.
QueueDestroyIfContract ==
  \A pred \in Preds :
    \A r \in {queue_destroy_if(nodes, pending, pred)} :
      LET hits == Matching(pred, 1)
          room == QueueCapacity - Len(pending)
          n    == IF Len(hits) <= room THEN Len(hits) ELSE room
      IN /\ r.count = n
         /\ r.pending = pending \o SubSeq(hits, 1, n)
         /\ \A k \in 1 .. Len(hits) : is_valid(hits[k])
         /\ Len(r.pending) <= QueueCapacity

\* Two active slots match a predicate and the queue has room for one.
QueueRoomForOneOfTwo ==
  /\ Len(pending) = QueueCapacity - 1
  /\ Len(Matching({0}, 1)) = 2
  /\ queue_destroy_if(nodes, pending, {0}).count = 1

\* C24: slot 0 is inactive, was never allocated and never pushed on the
\* free-list, spawn returns index 0 only as NilRef from a full pool that it
\* leaves untouched, no handle spawn returned has index 0, and is_valid
\* rejects every handle with index 0.
SlotZeroReserved ==
  /\ ~nodes[0].is_active
  /\ nodes[0].generation = 0
  /\ next_free[0] = 0
  /\ 0 \notin Range(FreeList)
  /\ \A r \in {spawn_ret(Pool)} :
       r.index = 0 => r = NilRef /\ first_free = 0 /\ spawn(Pool) = Pool
  /\ \A h \in IssuedHandles(issued) : h.index # 0
  /\ \A g \in {0, 1, nodes[0].generation} : ~is_valid(Ref(0, g))

\* The pool is full, spawn has nothing to hand out, and a write through an
\* invalid handle has landed in slot 0's payload.
FullPoolPoisonWritten ==
  /\ first_free = 0
  /\ ActiveSlots = Slots
  /\ nodes[0].data # 0
  /\ spawn_ret(Pool) = NilRef

\* C25: no public call, a successful load_from_file of an earlier snapshot
\* of the same pool included, leaves a slot with a generation lower than it
\* had before the call.
GenerationNeverDecreases ==
  [][\A i \in Idx : ~u32_less(nodes'[i].generation, nodes[i].generation)]_vars

RECURSIVE PostOrder(_, _, _), PostOrderAll(_, _, _), SpawnSeq(_, _), Reverse(_)

\* The slots of r's subtree in depth-first post-order: for each child in
\* ring order its whole subtree, then r.
PostOrder(ns, r, n) ==
  IF n = 0 THEN <<>> ELSE PostOrderAll(ns, ChildList(ns, r), n - 1) \o <<r>>

PostOrderAll(ns, cs, n) ==
  IF cs = <<>> THEN <<>>
  ELSE PostOrder(ns, Head(cs), n) \o PostOrderAll(ns, Tail(cs), n)

\* The handles the next k spawn calls return from pool S.
SpawnSeq(S, k) ==
  IF k = 0 THEN <<>> ELSE <<spawn_ret(S)>> \o SpawnSeq(spawn(S), k - 1)

Reverse(q) == IF q = <<>> THEN <<>> ELSE Reverse(Tail(q)) \o <<Head(q)>>

\* No slot is its own parent or ancestor.
Acyclic(ns) ==
  \A i \in Slots : ns[i].parent # i /\ ~IsAncestor(ns, i, i, MAX_THINGS)

\* Inactive slots carry no links, and every link of an active slot names an
\* active slot.
LiveLinks(ns) ==
  \A i \in Idx :
    IF ns[i].is_active
    THEN \A l \in Range(Links(ns[i])) : l # 0 => ns[l].is_active
    ELSE Links(ns[i]) = <<0, 0, 0, 0>>

\* The hierarchy holds live nodes only and its parent links have no cycle.
LiveForest == Acyclic(nodes) /\ LiveLinks(nodes)

\* The ring of p's children is doubly linked and all its members name p as
\* their parent.
RingConsistent(ns, p) ==
  LET r == ChildList(ns, p) IN
  /\ NoDup(r)
  /\ \A k \in 1 .. Len(r) :
       /\ ns[r[k]].parent = p
       /\ ns[r[k]].next_sibling = r[(k % Len(r)) + 1]
       /\ ns[r[k]].prev_sibling = r[((k + Len(r) - 2) % Len(r)) + 1]

ValidHandles == {h \in Handles : is_valid(h)}

\* Pairs (p, c) of valid handles with c neither p nor an ancestor of p.
AttachPairs ==
  {pc \in ValidHandles \X ValidHandles :
     /\ pc[1] # pc[2]
     /\ ~IsAncestor(nodes, pc[2].index, pc[1].index, MAX_THINGS)}

\* The valid handles whose node has a parent.
ChildHandles == {h \in ValidHandles : nodes[h.index].parent # 0}

\* destroy(root) for every valid root: the call returns, first_free is
\* root.index, the free-list starts with the live slots of root's subtree in
\* the reverse of their depth-first post-order and goes on with the old
\* free-list, no slot comes before one of its descendants in that order,
\* and the next k spawn calls return those slots in the reverse order with
\* the generation increased by 1.
DestroyPostOrderBody ==
  \A h \in ValidHandles :
    LET S    == destroy(Pool, h)
        po   == SelectSeq(PostOrder(nodes, h.index, MAX_THINGS),
                          LAMBDA i : nodes[i].is_active)
        k    == Len(po)
        lifo == Reverse(po)
    IN /\ Returned(S)
       /\ NoDup(po)
       /\ S.first_free = h.index
       /\ free_walk(S.next_free, S.first_free, k) = lifo
       /\ S.next_free[po[1]] = first_free
       /\ \A a, b \in 1 .. k : nodes[po[a]].parent = po[b] => a < b
       /\ SpawnSeq(S, k) =
            [j \in 1 .. k |->
               Ref(lifo[j], u32_inc(nodes[lifo[j]].generation))]

\* C26: in every state whose hierarchy holds live nodes only and has no
\* parent cycle, destroy(root) on a valid root pushes the slots of root's
\* subtree on the free-list in depth-first post-order, no parent before a
\* descendant, so that first_free = root.index and the next k spawn calls
\* return the subtree's slots in the reverse of that order, each with its
\* generation increased by 1.
DestroyPostOrder == LiveForest => DestroyPostOrderBody

\* C26 in a well-formed hierarchy, where destroy does push the subtree in
\* post-order.
DestroyPostOrderWellFormed == WellFormed(nodes) => DestroyPostOrderBody

\* attach_child(p, c) for every pair of valid handles, c neither p nor an
\* ancestor of p: c is the last member of p's ring and the other children
\* keep their order; if p had no children, p.first_child = c and
\* c.next_sibling = c.prev_sibling = c; if p had children and c was not one
\* of them, p.first_child is unchanged and c sits immediately before it.
AttachAppendsBody ==
  \A pc \in AttachPairs :
    LET p   == pc[1].index
        c   == pc[2].index
        S   == attach_child(nodes, pc[1], pc[2])
        old == ChildList(nodes, p)
        new == ChildList(S, p)
    IN /\ new # <<>> /\ new[Len(new)] = c
       /\ without(new, c) = without(old, c)
       /\ old = <<>> =>
            /\ S[p].first_child = c
            /\ S[c].next_sibling = c
            /\ S[c].prev_sibling = c
       /\ (old # <<>> /\ c \notin Range(old)) =>
            /\ S[p].first_child = nodes[p].first_child
            /\ S[c].next_sibling = nodes[p].first_child
            /\ S[nodes[p].first_child].prev_sibling = c

\* C27: in every state whose hierarchy holds live nodes only and has no
\* parent cycle, attach_child(p, c) with valid p and c, c neither p nor an
\* ancestor of p, makes c the last member of p's child ring: p.first_child =
\* c and c.next_sibling = c.prev_sibling = c if p had no children, otherwise
\* p.first_child unchanged and c immediately before it; the walk along
\* next_sibling from p.first_child lists the children in attach order.
AttachAppends == LiveForest => AttachAppendsBody

\* C27 in a well-formed hierarchy, where attach_child does append.
AttachAppendsWellFormed == WellFormed(nodes) => AttachAppendsBody

\* attach_child(p, c) for every pair of valid handles, c neither p nor an
\* ancestor of p, where c has a parent q: c.parent = p, c is once in p's
\* ring and in no other ring, q's ring holds its other children in their
\* order (q.first_child = 0 if c was the only one), c's children are as
\* they were, and with q = p the call moves c to the tail of a consistent
\* ring.
AttachMovesChildBody ==
  \A pc \in {x \in AttachPairs : nodes[x[2].index].parent # 0} :
    LET p == pc[1].index
        c == pc[2].index
        q == nodes[c].parent
        S == attach_child(nodes, pc[1], pc[2])
    IN /\ S[c].parent = p
       /\ Cardinality({k \in 1 .. Len(ChildList(S, p)) :
                         ChildList(S, p)[k] = c}) = 1
       /\ \A i \in Slots \ {p} : c \notin Range(ChildList(S, i))
       /\ q # p => /\ ChildList(S, q) = without(ChildList(nodes, q), c)
                   /\ (ChildList(nodes, q) = <<c>> => S[q].first_child = 0)
       /\ q = p => /\ ChildList(S, p) =
                        Append(without(ChildList(nodes, p), c), c)
                   /\ RingConsistent(S, p)
       /\ S[c].first_child = nodes[c].first_child
       /\ ChildList(S, c) = ChildList(nodes, c)

\* C28: in every state whose hierarchy holds live nodes only and has no
\* parent cycle, attach_child(p, c) on a c that has a parent q first removes
\* c from q's ring: afterwards c.parent = p, c is in p's ring only, q's ring
\* holds its other children in their order (q.first_child = 0 if c was the
\* only child) and c's own children stay attached to c; with q = p the call
\* moves c to the tail of p's ring and leaves the ring consistent.
AttachMovesChild == LiveForest => AttachMovesChildBody

\* C28 in a well-formed hierarchy, where the re-attach does detach first.
AttachMovesChildWellFormed == WellFormed(nodes) => AttachMovesChildBody

\* detach(c) for every valid c with a parent p: c.parent, c.next_sibling and
\* c.prev_sibling are 0; p.first_child is 0 if c was the only child, c's
\* former next_sibling if c was the head, and unchanged otherwise; p's ring
\* is consistent and holds the other children in their order;
\* c.first_child, c's payload and every slot other than c, p and c's ring
\* neighbours are unchanged.
DetachSplicesBody ==
  \A h \in ChildHandles :
    LET c   == h.index
        p   == nodes[c].parent
        S   == detach(nodes, h)
        old == ChildList(nodes, p)
        nbr == {nodes[c].next_sibling, nodes[c].prev_sibling} \ {c}
    IN /\ S[c].parent = 0 /\ S[c].next_sibling = 0 /\ S[c].prev_sibling = 0
       /\ S[p].first_child =
            (IF old = <<c>> THEN 0
             ELSE IF nodes[p].first_child = c THEN nodes[c].next_sibling
             ELSE nodes[p].first_child)
       /\ ChildList(S, p) = without(old, c)
       /\ RingConsistent(S, p)
       /\ S[c].first_child = nodes[c].first_child
       /\ S[c].data = nodes[c].data
       /\ \A i \in Idx \ ({c, p} \cup nbr) : S[i] = nodes[i]

\* C29: in every state whose hierarchy holds live nodes only and has no
\* parent cycle, detach(c) on a valid c with parent p # 0 clears c.parent,
\* c.next_sibling and c.prev_sibling; sets p.first_child to 0 if c was the
\* only child, to c's former next_sibling if c was the head, and leaves it
\* otherwise; keeps the remaining siblings in their order in a consistent
\* ring; and leaves c.first_child, c's payload and all other slots
\* unchanged.
DetachSplices == LiveForest => DetachSplicesBody

\* C29 in a well-formed hierarchy, where detach does splice c out.
DetachSplicesWellFormed == WellFormed(nodes) => DetachSplicesBody

\* destroy(c) for every valid c whose parent p is valid and whose ring
\* holds active slots only: the call returns, c is invalid, p and the other
\* members of the ring are still valid, p's ring is the old one without c
\* (p.first_child advanced if c was the head, 0 if c was the only child),
\* and destroy(p) after it returns and leaves p and every remaining child
\* inactive.
DestroyChildKeepsFamilyBody ==
  \A h \in ChildHandles :
    LET c    == h.index
        p    == nodes[c].parent
        pref == Ref(p, nodes[p].generation)
        old  == ChildList(nodes, p)
        rest == without(old, c)
        S    == destroy(Pool, h)
        S2   == destroy([S EXCEPT !.fuel = Fuel], pref)
    IN (is_valid(pref) /\ \A k \in 1 .. Len(rest) : nodes[rest[k]].is_active)
       => /\ Returned(S)
          /\ ~is_valid_in(S.nodes, h)
          /\ is_valid_in(S.nodes, pref)
          /\ \A k \in 1 .. Len(rest) :
               is_valid_in(S.nodes, Ref(rest[k], nodes[rest[k]].generation))
          /\ c \notin Range(ChildList(S.nodes, p))
          /\ ChildList(S.nodes, p) = rest
          /\ S.nodes[p].first_child =
               (IF old = <<c>> THEN 0
                ELSE IF nodes[p].first_child = c THEN nodes[c].next_sibling
                ELSE nodes[p].first_child)
          /\ Returned(S2)
          /\ ~is_valid_in(S2.nodes, pref)
          /\ \A k \in 1 .. Len(rest) : ~S2.nodes[rest[k]].is_active

\* C30: in every state whose hierarchy holds live nodes only and has no
\* parent cycle, destroy(c) on a valid node c with parent p removes c's
\* subtree only: afterwards p and c's siblings are still valid, p's ring no
\* longer contains c.index and holds the remaining children in their order
\* (p.first_child advanced if c was the head, 0 if c was the only child),
\* and a later destroy(p) invalidates every remaining child.
DestroyChildKeepsFamily == LiveForest => DestroyChildKeepsFamilyBody

\* C30 in a well-formed hierarchy, where destroy(c) does leave the family
\* intact.
DestroyChildKeepsFamilyWellFormed ==
  WellFormed(nodes) => DestroyChildKeepsFamilyBody

\* C31: the slot spawn returns is blank apart from its generation: its
\* payload is the default value and its parent, first_child, next_sibling
\* and prev_sibling are 0, whatever the slot held before the call,
\* including a payload or links written into it while it was inactive.
SpawnBlanksSlot ==
  first_free # 0 =>
    LET r == spawn_ret(Pool)
        S == spawn(Pool)
    IN /\ r.index = first_free
       /\ S.nodes[r.index].data = 0
       /\ Links(S.nodes[r.index]) = <<0, 0, 0, 0>>
       /\ S.nodes[r.index] =
            [BlankNode EXCEPT !.generation = r.generation, !.is_active = TRUE]

\* The slot at the head of the free-list is inactive and holds a payload
\* and links written through a stale handle, and spawn hands it out blank.
DirtyFreeHead ==
  /\ first_free # 0
  /\ ~nodes[first_free].is_active
  /\ nodes[first_free].data # 0
  /\ Links(nodes[first_free]) # <<0, 0, 0, 0>>
  /\ spawn(Pool).nodes[first_free].data = 0
  /\ Links(spawn(Pool).nodes[first_free]) = <<0, 0, 0, 0>>

\* The slots a call that left the node array ns tore down: active before,
\* inactive after.
TornDown(ns) == {i \in Slots : nodes[i].is_active /\ ~ns[i].is_active}

\* destroy(h) for every valid h, when it returns: h's slot is torn down,
\* and every slot torn down holds the generation it had before the call,
\* the default payload and no links.
DestroyedSlotsBlankBody ==
  \A h \in ValidHandles :
    LET S == destroy(Pool, h) IN
    Returned(S) =>
      /\ h.index \in TornDown(S.nodes)
      /\ \A i \in TornDown(S.nodes) :
           /\ S.nodes[i].generation = nodes[i].generation
           /\ S.nodes[i].data = 0
           /\ Links(S.nodes[i]) = <<0, 0, 0, 0>>
           /\ S.nodes[i] = [BlankNode EXCEPT !.generation = nodes[i].generation]

\* C32: in every state whose hierarchy holds live nodes only and has no
\* parent cycle, every slot destroyed by destroy(h), h's node and each
\* descendant, ends inactive with the generation it had before the call,
\* the default payload, and parent, first_child, next_sibling and
\* prev_sibling 0.
DestroyedSlotsBlank == LiveForest => DestroyedSlotsBlankBody

\* C32 in a well-formed hierarchy, where every slot torn down ends blank.
DestroyedSlotsBlankWellFormed == WellFormed(nodes) => DestroyedSlotsBlankBody

DestroyTerminates ==
  \A h \in ValidHandles : Returned(destroy(Pool, h))

\* The file f passes every check load_from_file makes: it opens, its three
\* regions are whole, and its header has magic "LOGC", max_things =
\* MAX_THINGS, node_size = NodeSize and first_free < MAX_THINGS.
Loadable(f) ==
  /\ f.openable
  /\ f.regions = 3
  /\ f.header.magic = "LOGC"
  /\ f.header.max_things = MAX_THINGS
  /\ f.header.node_size = NodeSize
  /\ f.header.first_free < MAX_THINGS

\* C35: load_from_file returns true exactly for a file whose header,
\* next_free and node regions are whole and whose header has magic "LOGC",
\* max_things = MAX_THINGS, node_size = NodeSize and first_free <
\* MAX_THINGS; then, and only then, next_free, nodes and first_free become
\* the file's; and neither the header's version nor the contents of the two
\* array regions change the value returned.
LoadExactly ==
  \A f \in Variants(file) :
    \A r \in {load_from_file(Pool, f)} :
      /\ r.ok <=> Loadable(f)
      /\ r.ok => /\ r.pool.next_free = f.next_free
                 /\ r.pool.nodes = f.nodes
                 /\ r.pool.first_free = f.header.first_free
                 /\ r.pool.fuel = Pool.fuel
      /\ ~r.ok => r.pool = Pool
      /\ \A v \in {1, 2} :
           load_from_file(Pool, [f EXCEPT !.header.version = v]).ok = r.ok
      /\ load_from_file(Pool, [f EXCEPT !.next_free = ForeignFree,
                                        !.nodes = ForeignNodes]).ok = r.ok

\* A snapshot is on disk, the pool has changed since, and the pool is asked
\* to load that snapshot with version 2 and foreign array regions, which it
\* takes over verbatim.
LoadsForeignSnapshot ==
  /\ HasSaved
  /\ nodes # saved.nodes
  /\ \E f \in Variants(file) :
       /\ f.header.version = 2
       /\ f.nodes = ForeignNodes
       /\ f.next_free = ForeignFree
       /\ load_from_file(Pool, f).ok
       /\ load_from_file(Pool, f).pool.nodes = ForeignNodes
       /\ load_from_file(Pool, f).pool # Pool

\* Every active slot met in a child ring names the owner of that ring as its
\* parent.
RingMembersOwned(ns) ==
  \A p \in Slots :
    \A c \in Range(ChildList(ns, p)) : ns[c].is_active => ns[c].parent = p

\* C36: after any calls of spawn, destroy, attach_child and detach with any
\* handle arguments, every nonzero link of an active slot names an active
\* slot, every inactive slot (slot 0 too) has its four links at 0, and every
\* active slot in a child ring has the ring's owner as its parent.
HierarchyStaysLive ==
  /\ \A i \in Idx :
       nodes[i].is_active =>
         \A l \in Range(Links(nodes[i])) : l # 0 => nodes[l].is_active
  /\ \A i \in Idx : ~nodes[i].is_active => Links(nodes[i]) = <<0, 0, 0, 0>>
  /\ RingMembersOwned(nodes)

====
